---- MODULE Spec2Model ----
(***************************************************************************)
(* libmediacodec: the VideoEncoder facade and the codec wrappers behind it *)
(* (H264/HEVC/VP8/VP9/AV1 software encoders, the NVIDIA encoders), the     *)
(* H264 decoder and the VP8 two-pass API, over an abstract libavcodec      *)
(* send/receive protocol.                                                  *)
(*                                                                         *)
(* Frames are numbered 1..MaxFrames; the packet libavcodec produces for    *)
(* frame f is identified with f, so a std::vector<uint8_t> of encoded data *)
(* is the sequence of the packets copied into it (<<>> is an empty vector).*)
(***************************************************************************)
EXTENDS Integers, Sequences, FiniteSets, TLC

\* Bound: frames a caller submits to one encoder.
MaxFrames == 2

\* Bound: calls made on one H264 decoder.
MaxCalls == 4

\* Bound: largest skip_frames_after_flush configured.
MaxSkip == 2

\* libavcodec return codes (negative errno / FFERRTAG values).
AVERROR_EAGAIN == -11
AVERROR_EOF == -541478725
AVERROR_EXTERNAL == -542398533

\* A null AVFrame* handed to avcodec_send_frame.
NullFrame == 0

Frames == 1..MaxFrames

CodecTypes == {"H264", "HEVC", "VP8", "VP9", "AV1"}

\* Bitrates and framerates a caller configures, and the values it passes to
\* UpdateBitrate / UpdateFramerate (0 is a value the wrappers must judge).
Bitrates == {5000000}
Framerates == {30}
UpdateValues == {0, 1000000, 5000000}
UpdateRates == {0, 30, 60}

\* yuv_data.size() relative to width*height*3/2.
Sizes == {"short", "exact", "long"}

(***************************************************************************)
(* libavcodec, as the wrappers use it.  An AVCodecContext is a record; buf *)
(* holds the frames sent whose packets were not received yet.              *)
(***************************************************************************)
NullCtx ==
  [alloc |-> FALSE, bit_rate |-> 0, framerate |-> 0, pass |-> 0,
   draining |-> FALSE, buf |-> <<>>]

\* avcodec_alloc_context3 + the fields the wrapper sets + avcodec_open2.
OpenCtx(bit_rate, framerate, pass) ==
  [alloc |-> TRUE, bit_rate |-> bit_rate, framerate |-> framerate,
   pass |-> pass, draining |-> FALSE, buf |-> <<>>]

\* avcodec_send_frame: a draining encoder answers end-of-stream; a null
\* frame starts draining; `fail` is any other refusal by the codec.
avcodec_send_frame(ctx, frame, fail) ==
  IF ctx.draining THEN [ret |-> AVERROR_EOF, ctx |-> ctx]
  ELSE IF fail THEN [ret |-> AVERROR_EXTERNAL, ctx |-> ctx]
  ELSE IF frame = NullFrame
    THEN [ret |-> 0, ctx |-> [ctx EXCEPT !.draining = TRUE]]
    ELSE [ret |-> 0, ctx |-> [ctx EXCEPT !.buf = Append(@, frame)]]

\* avcodec_receive_packet: `ready` is how many packets the codec has
\* finished; a draining codec finishes everything it holds.  `fail` is a
\* codec error once nothing is ready.
avcodec_receive_packet(ctx, ready, fail) ==
  IF ctx.buf # <<>> /\ (ctx.draining \/ ready > 0)
    THEN [ret |-> 0, pkt |-> Head(ctx.buf),
          ctx |-> [ctx EXCEPT !.buf = Tail(@)]]
  ELSE IF fail THEN [ret |-> AVERROR_EXTERNAL, pkt |-> 0, ctx |-> ctx]
  ELSE IF ctx.draining THEN [ret |-> AVERROR_EOF, pkt |-> 0, ctx |-> ctx]
  ELSE [ret |-> AVERROR_EAGAIN, pkt |-> 0, ctx |-> ctx]

\* What the codec does during one wrapper call: whether avcodec_open2
\* succeeds (when the call opens the codec), whether it refuses the frame,
\* how many packets it has finished, whether receiving fails.  A refused
\* frame ends the call, so the later choices are fixed then.
Envs ==
  {e \in [openOk : BOOLEAN, sendFail : BOOLEAN, ready : 0..MaxFrames,
          recvFail : BOOLEAN] :
     e.sendFail => (e.ready = 0 /\ ~e.recvFail)}

\* The choices for a call that never opens the codec.
RunEnvs == {e \in Envs : e.openOk}

\* Whether libavcodec refused or failed something in the call.
EnvFault(e) == e.sendFail \/ e.recvFail \/ ~e.openOk

(***************************************************************************)
(* The codec-specific encoder objects.  One record shape serves them all:  *)
(* null (a null unique_ptr), config_ (the encoder's own copy of bitrate    *)
(* and framerate), initialized_, the VP8 two-pass fields and the codec     *)
(* context.  Every operation returns [ret, enc, out, pkts]: the value      *)
(* returned, the object afterwards, the caller's vector afterwards and the *)
(* packets it took from the codec.                                         *)
(***************************************************************************)
NullEncoder ==
  [null |-> TRUE, config_ |-> [bitrate |-> 0, framerate |-> 0],
   initialized_ |-> FALSE, first_pass_complete_ |-> FALSE,
   two_pass_encoding |-> FALSE, codec_context_ |-> NullCtx]

NewEncoder(cfg, ctx, init) ==
  [null |-> FALSE, config_ |-> cfg, initialized_ |-> init,
   first_pass_complete_ |-> FALSE, two_pass_encoding |-> FALSE,
   codec_context_ |-> ctx]

Result(ret, enc, out, pkts) ==
  [ret |-> ret, enc |-> enc, out |-> out, pkts |-> pkts]

---------------------------------------------------------------------------
\* H264EncoderInstance (h264_encoder.cc)

H264_Initialize(self, openOk) ==
  IF openOk
    THEN [ret |-> TRUE,
          enc |-> [self EXCEPT !.initialized_ = TRUE,
                     !.codec_context_ =
                        OpenCtx(self.config_.bitrate, self.config_.framerate, 0)]]
    ELSE [ret |-> FALSE,
          enc |-> [self EXCEPT !.initialized_ = FALSE,
                     !.codec_context_ = NullCtx]]

H264_Create(cfg, openOk) ==
  LET r == H264_Initialize(NewEncoder(cfg, NullCtx, FALSE), openOk)
  IN IF r.ret THEN r.enc ELSE NullEncoder

\* The receive loop of EncodeFrame: append packets until the codec reports
\* EAGAIN or end-of-stream (true) or an error (false).
RECURSIVE H264_ReceiveLoop(_, _, _, _, _)
H264_ReceiveLoop(self, out, pkts, ready, fail) ==
  LET r == avcodec_receive_packet(self.codec_context_, ready, fail)
  IN IF r.ret = AVERROR_EAGAIN \/ r.ret = AVERROR_EOF
       THEN Result(TRUE, self, out, pkts)
     ELSE IF r.ret < 0 THEN Result(FALSE, self, out, pkts)
     ELSE H264_ReceiveLoop([self EXCEPT !.codec_context_ = r.ctx],
                           Append(out, r.pkt), Append(pkts, r.pkt),
                           IF ready > 0 THEN ready - 1 ELSE 0, fail)

H264_EncodeFrame(self, out, frame, e) ==
  LET s == avcodec_send_frame(self.codec_context_, frame, e.sendFail)
  IN IF s.ret < 0 THEN Result(FALSE, self, out, <<>>)
     ELSE H264_ReceiveLoop([self EXCEPT !.codec_context_ = s.ctx],
                           <<>>, <<>>, e.ready, e.recvFail)

H264_EncodeYUV420(self, out, frame, size, e) ==
  LET i == IF self.initialized_ THEN [ret |-> TRUE, enc |-> self]
           ELSE H264_Initialize(self, e.openOk)
  IN IF ~i.ret THEN Result(FALSE, i.enc, out, <<>>)
     ELSE IF size # "exact" THEN Result(FALSE, i.enc, out, <<>>)
     ELSE H264_EncodeFrame(i.enc, out, frame, e)

H264_Flush(self, out, e) ==
  IF ~self.initialized_ THEN Result(FALSE, self, out, <<>>)
  ELSE H264_EncodeFrame(self, out, NullFrame, e)

H264_Reconfigure(self, cfg, openOk) ==
  H264_Initialize([self EXCEPT !.config_ = cfg], openOk)

---------------------------------------------------------------------------
\* HEVCEncoderImpl of hevc_encoder.cc (the HEVCEncoder behind the facade)

HEVC_Create(cfg, openOk) ==
  IF openOk
    THEN NewEncoder(cfg, OpenCtx(cfg.bitrate, cfg.framerate, 0), TRUE)
    ELSE NullEncoder

HEVC_ReceivePacket(self, out, ready, fail) ==
  LET r == avcodec_receive_packet(self.codec_context_, ready, fail)
  IN IF r.ret = AVERROR_EAGAIN \/ r.ret = AVERROR_EOF
       THEN Result(1, self, out, <<>>)
     ELSE IF r.ret < 0 THEN Result(0, self, out, <<>>)
     ELSE Result(1, [self EXCEPT !.codec_context_ = r.ctx],
                 <<r.pkt>>, <<r.pkt>>)

HEVC_EncodeYUV420(self, out, frame, size, e) ==
  IF ~self.codec_context_.alloc THEN Result(0, self, out, <<>>)
  ELSE IF size = "short" THEN Result(0, self, out, <<>>)
  ELSE LET s == avcodec_send_frame(self.codec_context_, frame, e.sendFail)
       IN IF s.ret < 0 THEN Result(0, self, out, <<>>)
          ELSE HEVC_ReceivePacket([self EXCEPT !.codec_context_ = s.ctx],
                                  out, e.ready, e.recvFail)

HEVC_Flush(self, out, e) ==
  LET s == avcodec_send_frame(self.codec_context_, NullFrame, e.sendFail)
  IN IF s.ret < 0 THEN Result(0, self, out, <<>>)
     ELSE HEVC_ReceivePacket([self EXCEPT !.codec_context_ = s.ctx],
                             out, e.ready, e.recvFail)

HEVC_UpdateParams(self, new_bitrate, new_framerate) ==
  LET a == IF new_bitrate > 0
             THEN [self EXCEPT !.config_.bitrate = new_bitrate] ELSE self
      b == IF new_framerate > 0
             THEN [a EXCEPT !.config_.framerate = new_framerate,
                            !.codec_context_.framerate = new_framerate]
             ELSE a
  IN [ret |-> TRUE, enc |-> b]

---------------------------------------------------------------------------
\* VP8Encoder (vp8_encoder.cc)

\* ApplyCodecOptions: allocate a context, choose the pass from
\* first_pass_complete_, open the codec.  codec_context_ is null at every
\* call site, and stays null when the codec is missing or does not open.
VP8_ApplyCodecOptions(self, openOk) ==
  LET pass == IF self.two_pass_encoding
                THEN (IF ~self.first_pass_complete_ THEN 1 ELSE 2)
                ELSE 0
  IN IF ~openOk
       THEN [ret |-> FALSE, enc |-> [self EXCEPT !.codec_context_ = NullCtx]]
       ELSE [ret |-> TRUE,
             enc |-> [self EXCEPT
                        !.codec_context_ =
                           OpenCtx(self.config_.bitrate,
                                   self.config_.framerate, pass),
                        !.initialized_ = TRUE]]

VP8_Create(cfg, two_pass, openOk) ==
  LET r == VP8_ApplyCodecOptions(
             [NewEncoder(cfg, NullCtx, FALSE) EXCEPT
                !.two_pass_encoding = two_pass], openOk)
  IN IF r.ret THEN r.enc ELSE NullEncoder

VP8_EncodeYUV420(self, out, frame, size, e) ==
  IF ~self.initialized_ \/ ~self.codec_context_.alloc
    THEN Result(0, self, out, <<>>)
  ELSE IF size = "short" THEN Result(0, self, out, <<>>)
  ELSE LET s == avcodec_send_frame(self.codec_context_, frame, e.sendFail)
       IN IF s.ret < 0 THEN Result(0, self, out, <<>>)
          ELSE LET r == avcodec_receive_packet(s.ctx, e.ready, e.recvFail)
               IN IF r.ret = 0
                    THEN Result(1, [self EXCEPT !.codec_context_ = r.ctx],
                                <<r.pkt>>, <<r.pkt>>)
                    ELSE Result(0, [self EXCEPT !.codec_context_ = s.ctx],
                                out, <<>>)

VP8_StartFirstPass(self, openOk) ==
  IF self.two_pass_encoding /\ ~self.first_pass_complete_
    THEN VP8_ApplyCodecOptions(
           IF self.codec_context_.alloc
             THEN [self EXCEPT !.codec_context_ = NullCtx,
                               !.initialized_ = FALSE]
             ELSE self, openOk)
    ELSE [ret |-> FALSE, enc |-> self]

VP8_StartSecondPass(self, openOk) ==
  IF self.two_pass_encoding /\ ~self.initialized_
    THEN VP8_ApplyCodecOptions(
           [self EXCEPT !.first_pass_complete_ = TRUE], openOk)
    ELSE [ret |-> FALSE, enc |-> self]

VP8_IsFirstPassComplete(self) == self.first_pass_complete_

---------------------------------------------------------------------------
\* VP9EncoderImpl of vp9_encoder.cc (the VP9Encoder behind the facade)

VP9_Create(cfg, openOk) ==
  IF openOk
    THEN NewEncoder(cfg, OpenCtx(cfg.bitrate, cfg.framerate, 0), TRUE)
    ELSE NullEncoder

VP9_EncodeYUV420(self, out, frame, size, e) ==
  IF size = "short" THEN Result(FALSE, self, out, <<>>)
  ELSE LET s == avcodec_send_frame(self.codec_context_, frame, e.sendFail)
       IN IF s.ret < 0 THEN Result(FALSE, self, out, <<>>)
          ELSE LET r == avcodec_receive_packet(s.ctx, e.ready, e.recvFail)
                   sent == [self EXCEPT !.codec_context_ = s.ctx]
               IN IF r.ret < 0
                    THEN Result(r.ret = AVERROR_EAGAIN \/ r.ret = AVERROR_EOF,
                                sent, out, <<>>)
                    ELSE Result(TRUE, [self EXCEPT !.codec_context_ = r.ctx],
                                <<r.pkt>>, <<r.pkt>>)

VP9_UpdateBitrate(self, new_bitrate) ==
  IF new_bitrate <= 0 THEN [ret |-> FALSE, enc |-> self]
  ELSE [ret |-> TRUE,
        enc |-> [self EXCEPT !.config_.bitrate = new_bitrate,
                             !.codec_context_.bit_rate = new_bitrate]]

VP9_UpdateFramerate(self, new_framerate) ==
  IF new_framerate <= 0 THEN [ret |-> FALSE, enc |-> self]
  ELSE [ret |-> TRUE,
        enc |-> [self EXCEPT !.config_.framerate = new_framerate,
                             !.codec_context_.framerate = new_framerate]]

---------------------------------------------------------------------------
\* AV1Encoder (av1_encoder.cc)

AV1_Create(cfg, openOk) ==
  IF openOk
    THEN NewEncoder(cfg, OpenCtx(cfg.bitrate, cfg.framerate, 0), TRUE)
    ELSE NullEncoder

AV1_EncodeYUV420(self, out, frame, size, e) ==
  IF ~self.initialized_ THEN Result(FALSE, self, out, <<>>)
  ELSE IF size = "short" THEN Result(FALSE, self, out, <<>>)
  ELSE LET s == avcodec_send_frame(self.codec_context_, frame, e.sendFail)
       IN IF s.ret < 0 THEN Result(FALSE, self, out, <<>>)
          ELSE LET r == avcodec_receive_packet(s.ctx, e.ready, e.recvFail)
                   sent == [self EXCEPT !.codec_context_ = s.ctx]
               IN IF r.ret = 0
                    THEN Result(TRUE, [self EXCEPT !.codec_context_ = r.ctx],
                                <<r.pkt>>, <<r.pkt>>)
                  ELSE IF r.ret = AVERROR_EAGAIN
                    THEN Result(TRUE, sent, <<>>, <<>>)
                  ELSE Result(FALSE, sent, out, <<>>)

AV1_Flush(self, out, e) ==
  IF ~self.initialized_ THEN Result(FALSE, self, out, <<>>)
  ELSE LET s == avcodec_send_frame(self.codec_context_, NullFrame, e.sendFail)
       IN IF s.ret < 0 THEN Result(FALSE, self, out, <<>>)
          ELSE LET r == avcodec_receive_packet(s.ctx, e.ready, e.recvFail)
                   sent == [self EXCEPT !.codec_context_ = s.ctx]
               IN IF r.ret = 0
                    THEN Result(TRUE, [self EXCEPT !.codec_context_ = r.ctx],
                                <<r.pkt>>, <<r.pkt>>)
                  ELSE IF r.ret = AVERROR_EOF
                    THEN Result(TRUE, sent, <<>>, <<>>)
                  ELSE Result(FALSE, sent, out, <<>>)

---------------------------------------------------------------------------
\* NvidiaHEVCEncoder / NvidiaAV1Encoder (accelerated/*.cc); NvidiaH264Encoder
\* has the same interface (accelerated/nvidia_h264_encoder.h).

Nvidia_Create(cfg, openOk) ==
  IF openOk
    THEN NewEncoder(cfg, OpenCtx(cfg.bitrate, cfg.framerate, 0), TRUE)
    ELSE NullEncoder

\* EncodeFrame; is_nv12 only selects how the planes are copied.
Nvidia_EncodeFrame(self, out, frame, e) ==
  LET s == avcodec_send_frame(self.codec_context_, frame, e.sendFail)
  IN IF s.ret < 0 THEN Result(FALSE, self, <<>>, <<>>)
     ELSE LET r == avcodec_receive_packet(s.ctx, e.ready, e.recvFail)
              sent == [self EXCEPT !.codec_context_ = s.ctx]
          IN IF r.ret < 0
               THEN Result(r.ret = AVERROR_EAGAIN \/ r.ret = AVERROR_EOF,
                           sent, <<>>, <<>>)
               ELSE Result(TRUE, [self EXCEPT !.codec_context_ = r.ctx],
                           <<r.pkt>>, <<r.pkt>>)

Nvidia_EncodeYUV420(self, out, frame, size, e) ==
  IF ~self.initialized_ \/ size = "short" THEN Result(FALSE, self, out, <<>>)
  ELSE Nvidia_EncodeFrame(self, out, frame, e)

Nvidia_EncodeNV12(self, out, frame, size, e) ==
  IF ~self.initialized_ \/ size = "short" THEN Result(FALSE, self, out, <<>>)
  ELSE Nvidia_EncodeFrame(self, out, frame, e)

---------------------------------------------------------------------------
(***************************************************************************)
(* The VideoEncoder facade (media_video_encoder.cc).                       *)
(***************************************************************************)
VARIABLES
  impl,           \* class of the object Create returned ("none" before Create,
                  \* "nullptr" for a null result)
  config_,        \* the wrapper's VideoEncoderConfig copy
  codec_config_,  \* h264_config_ / hevc_config_ / vp8_config_ / ... of the wrapper
  encoder_,       \* the wrapper's unique_ptr to the codec-specific encoder
  encoded_frame,  \* the vector the caller last handed in, as the call left it
  avail,          \* which codecs this build of libavcodec can open
  last,           \* the last call: name, result, argument, packets received
  accepted,       \* frames whose encode call returned true
  delivered,      \* packets that reached a caller's vector
  pts             \* frames the caller has submitted so far

VARIABLES
  dec,            \* the H264DecoderInstance
  yuv_frame,      \* the caller's output vector of DecodeToYUV420
  dlast,          \* the last decoder call and what the codec reported in it
  ncalls          \* decoder calls made so far

VARIABLES
  vp8,            \* a VP8Encoder used directly
  vlast,          \* the last VP8Encoder call
  vp8_frame,      \* the vector the caller last handed to it
  vp8_pts         \* frames the caller has submitted to it

encVars ==
  <<impl, config_, codec_config_, encoder_, encoded_frame, avail, last,
    accepted, delivered, pts>>
decVars == <<dec, yuv_frame, dlast, ncalls>>
vp8Vars == <<vp8, vlast, vp8_frame, vp8_pts>>

VARIABLES
  pic_decoder,    \* the decoder that copied the last decoded picture
  pic_frame,      \* the AVFrame the codec handed to it
  pic_yuv         \* the vector DecodeToYUV420 filled from it

picVars == <<pic_decoder, pic_frame, pic_yuv>>

VARIABLES
  nv_config,      \* the NVIDIA HEVC / AV1 encoder a picture is submitted to
  nv_frame,       \* its frame_ buffers, kept from call to call
  nv_yuv420,      \* the last EncodeYUV420: result, bytes read, frame submitted
  nv_nv12         \* the last EncodeNV12: the same

nvVars == <<nv_config, nv_frame, nv_yuv420, nv_nv12>>
vars == <<encVars, decVars, vp8Vars, picVars, nvVars>>

NoCall ==
  [name |-> "none", ret |-> FALSE, arg |-> 0, fault |-> FALSE, pkts |-> <<>>]

\* The two switch statements of VideoEncoder::Create.
GpuImpl(codec) ==
  CASE codec = "H264" -> "NvidiaH264EncoderImpl"
    [] codec = "HEVC" -> "NvidiaHEVCEncoderImpl"
    [] codec = "AV1" -> "NvidiaAV1EncoderImpl"
    [] OTHER -> "fallthrough"

SoftwareImpl(codec) ==
  CASE codec = "H264" -> "H264EncoderImpl"
    [] codec = "HEVC" -> "HEVCEncoderImpl"
    [] codec = "VP8" -> "VP8EncoderImpl"
    [] codec = "VP9" -> "VP9EncoderImpl"
    [] codec = "AV1" -> "AV1EncoderImpl"
    [] OTHER -> "nullptr"

\* A dispatch whose GPU switch has no fall-through: VP8 and VP9 with
\* gpu_acceleration get no wrapper of their codec.
VideoEncoder_Create_NoFallthrough(config) ==
  IF config.gpu_acceleration
    THEN GpuImpl(config.output_codec)
    ELSE SoftwareImpl(config.output_codec)

VideoEncoder_Create(config) ==
  IF config.gpu_acceleration /\ GpuImpl(config.output_codec) # "fallthrough"
    THEN GpuImpl(config.output_codec)
    ELSE SoftwareImpl(config.output_codec)

NvidiaImpls ==
  {"NvidiaH264EncoderImpl", "NvidiaHEVCEncoderImpl", "NvidiaAV1EncoderImpl"}

\* The constructors of the *EncoderImpl classes: copy the basic parameters
\* into the codec-specific config and create the codec-specific encoder.
ImplCreateEncoder(class, cfg, av) ==
  CASE class = "H264EncoderImpl" -> H264_Create(cfg, av.sw)
    [] class = "HEVCEncoderImpl" -> HEVC_Create(cfg, av.sw)
    [] class = "VP8EncoderImpl" -> VP8_Create(cfg, FALSE, av.sw)
    [] class = "VP9EncoderImpl" -> VP9_Create(cfg, av.sw)
    [] class = "AV1EncoderImpl" -> AV1_Create(cfg, av.sw)
    [] class \in NvidiaImpls -> Nvidia_Create(cfg, av.nv)
    [] OTHER -> NullEncoder

\* <Codec>EncoderImpl::EncodeYUV420
Impl_EncodeYUV420(class, enc, out, frame, size, e) ==
  IF enc.null THEN Result(FALSE, enc, out, <<>>)
  ELSE CASE class = "H264EncoderImpl" ->
              H264_EncodeYUV420(enc, out, frame, size, e)
         [] class = "HEVCEncoderImpl" ->
              LET r == HEVC_EncodeYUV420(enc, out, frame, size, e)
              IN Result(r.ret = 1, r.enc, r.out, r.pkts)
         [] class = "VP8EncoderImpl" ->
              LET r == VP8_EncodeYUV420(enc, out, frame, size, e)
              IN Result(r.ret > 0, r.enc, r.out, r.pkts)
         [] class = "VP9EncoderImpl" ->
              VP9_EncodeYUV420(enc, out, frame, size, e)
         [] class = "AV1EncoderImpl" ->
              AV1_EncodeYUV420(enc, out, frame, size, e)
         [] OTHER -> Nvidia_EncodeYUV420(enc, out, frame, size, e)

\* EncodeNV12: the NVIDIA wrappers override it, the base class refuses.
Impl_EncodeNV12(class, enc, out, frame, size, e) ==
  IF class \in NvidiaImpls
    THEN IF enc.null THEN Result(FALSE, enc, out, <<>>)
         ELSE Nvidia_EncodeNV12(enc, out, frame, size, e)
    ELSE Result(FALSE, enc, out, <<>>)

\* Flush: overridden by the H264, HEVC and AV1 wrappers; every other
\* wrapper inherits VideoEncoder::Flush, which returns true.
Impl_Flush(class, enc, out, e) ==
  CASE class = "H264EncoderImpl" ->
         IF enc.null THEN Result(FALSE, enc, out, <<>>)
         ELSE H264_Flush(enc, out, e)
    [] class = "HEVCEncoderImpl" ->
         IF enc.null THEN Result(FALSE, enc, out, <<>>)
         ELSE LET r == HEVC_Flush(enc, out, e)
              IN Result(r.ret = 1, r.enc, r.out, r.pkts)
    [] class = "AV1EncoderImpl" ->
         IF enc.null THEN Result(FALSE, enc, out, <<>>)
         ELSE AV1_Flush(enc, out, e)
    [] OTHER -> Result(TRUE, enc, out, <<>>)

\* UpdateBitrate: H264 reconfigures with a copy of h264_config_, HEVC calls
\* UpdateParams with hevc_config_.framerate, VP9 forwards; the base class
\* refuses.  Neither config_ nor the codec-specific config is written.
Impl_UpdateBitrate(class, enc, ccfg, new_bitrate, openOk) ==
  CASE class = "H264EncoderImpl" ->
         IF enc.null THEN [ret |-> FALSE, enc |-> enc]
         ELSE H264_Reconfigure(enc, [ccfg EXCEPT !.bitrate = new_bitrate],
                               openOk)
    [] class = "HEVCEncoderImpl" ->
         IF enc.null THEN [ret |-> FALSE, enc |-> enc]
         ELSE HEVC_UpdateParams(enc, new_bitrate, ccfg.framerate)
    [] class = "VP9EncoderImpl" ->
         IF enc.null THEN [ret |-> FALSE, enc |-> enc]
         ELSE VP9_UpdateBitrate(enc, new_bitrate)
    [] OTHER -> [ret |-> FALSE, enc |-> enc]

Impl_UpdateFramerate(class, enc, ccfg, new_framerate) ==
  CASE class = "HEVCEncoderImpl" ->
         IF enc.null THEN [ret |-> FALSE, enc |-> enc]
         ELSE HEVC_UpdateParams(enc, ccfg.bitrate, new_framerate)
    [] class = "VP9EncoderImpl" ->
         IF enc.null THEN [ret |-> FALSE, enc |-> enc]
         ELSE VP9_UpdateFramerate(enc, new_framerate)
    [] OTHER -> [ret |-> FALSE, enc |-> enc]

\* GetConfig of every wrapper: return config_.
GetConfig == config_

---------------------------------------------------------------------------
\* The facade's operations as a caller invokes them.

Range(q) == {q[i] : i \in 1..Len(q)}

Created == impl \notin {"none", "nullptr"}

\* auto encoder = VideoEncoder::Create(config);
Create(codec, gpu, bitrate, framerate, av) ==
  /\ impl = "none"
  /\ LET config == [output_codec |-> codec, gpu_acceleration |-> gpu,
                    bitrate |-> bitrate, framerate |-> framerate]
         class == VideoEncoder_Create(config)
         ccfg == [bitrate |-> config.bitrate, framerate |-> config.framerate]
     IN /\ impl' = class
        /\ config_' = config
        /\ codec_config_' = ccfg
        /\ encoder_' = ImplCreateEncoder(class, ccfg, av)
  /\ avail' = av
  /\ last' = [NoCall EXCEPT !.name = "Create"]
  /\ UNCHANGED <<encoded_frame, accepted, delivered, pts>>
  /\ UNCHANGED <<decVars, vp8Vars, picVars, nvVars>>

\* encoder->EncodeYUV420(frame_data, &encoded_frame); the caller hands in a
\* fresh vector or the one it used for the previous call.
EncodeYUV420(size, reuse, e) ==
  /\ Created
  /\ pts < MaxFrames
  /\ LET pre == IF reuse THEN encoded_frame ELSE <<>>
         r == Impl_EncodeYUV420(impl, encoder_, pre, pts + 1, size, e)
     IN /\ encoder_' = r.enc
        /\ encoded_frame' = r.out
        /\ last' = [name |-> "EncodeYUV420", ret |-> r.ret, arg |-> pts + 1,
                    fault |-> (last.fault \/ EnvFault(e)), pkts |-> r.pkts]
        /\ accepted' = IF r.ret THEN accepted \cup {pts + 1} ELSE accepted
        /\ delivered' = delivered \cup Range(r.pkts)
  /\ pts' = pts + 1
  /\ UNCHANGED <<impl, config_, codec_config_, avail>>
  /\ UNCHANGED <<decVars, vp8Vars, picVars, nvVars>>

\* encoder->EncodeNV12(frame_data, &encoded_frame);
EncodeNV12(size, reuse, e) ==
  /\ Created
  /\ pts < MaxFrames
  /\ LET pre == IF reuse THEN encoded_frame ELSE <<>>
         r == Impl_EncodeNV12(impl, encoder_, pre, pts + 1, size, e)
     IN /\ encoder_' = r.enc
        /\ encoded_frame' = r.out
        /\ last' = [name |-> "EncodeNV12", ret |-> r.ret, arg |-> pts + 1,
                    fault |-> (last.fault \/ EnvFault(e)), pkts |-> r.pkts]
        /\ accepted' = IF r.ret THEN accepted \cup {pts + 1} ELSE accepted
        /\ delivered' = delivered \cup Range(r.pkts)
  /\ pts' = pts + 1
  /\ UNCHANGED <<impl, config_, codec_config_, avail>>
  /\ UNCHANGED <<decVars, vp8Vars, picVars, nvVars>>

\* encoder->Flush(&flushed_data);
Flush(reuse, e) ==
  /\ Created
  /\ LET pre == IF reuse THEN encoded_frame ELSE <<>>
         r == Impl_Flush(impl, encoder_, pre, e)
     IN /\ encoder_' = r.enc
        /\ encoded_frame' = r.out
        /\ last' = [name |-> "Flush", ret |-> r.ret, arg |-> 0,
                    fault |-> (last.fault \/ EnvFault(e)), pkts |-> r.pkts]
        /\ delivered' = delivered \cup Range(r.pkts)
  /\ UNCHANGED <<impl, config_, codec_config_, avail, accepted, pts>>
  /\ UNCHANGED <<decVars, vp8Vars, picVars, nvVars>>

\* encoder->UpdateBitrate(new_bitrate);
UpdateBitrate(new_bitrate, openOk) ==
  /\ Created
  /\ LET r == Impl_UpdateBitrate(impl, encoder_, codec_config_, new_bitrate,
                                 openOk)
     IN /\ encoder_' = r.enc
        /\ last' = [name |-> "UpdateBitrate", ret |-> r.ret,
                    arg |-> new_bitrate, fault |-> (last.fault \/ ~openOk), pkts |-> <<>>]
  /\ UNCHANGED <<impl, config_, codec_config_, encoded_frame, avail,
                 accepted, delivered, pts>>
  /\ UNCHANGED <<decVars, vp8Vars, picVars, nvVars>>

\* encoder->UpdateFramerate(new_framerate);
UpdateFramerate(new_framerate) ==
  /\ Created
  /\ LET r == Impl_UpdateFramerate(impl, encoder_, codec_config_, new_framerate)
     IN /\ encoder_' = r.enc
        /\ last' = [name |-> "UpdateFramerate", ret |-> r.ret,
                    arg |-> new_framerate, fault |-> last.fault, pkts |-> <<>>]
  /\ UNCHANGED <<impl, config_, codec_config_, encoded_frame, avail,
                 accepted, delivered, pts>>
  /\ UNCHANGED <<decVars, vp8Vars, picVars, nvVars>>

---------------------------------------------------------------------------
(***************************************************************************)
(* H264DecoderInstance (h264_decoder.cc).  The codec context holds the     *)
(* packets sent whose frames were not received yet; the frame decoded from *)
(* packet p is identified with p.                                          *)
(***************************************************************************)
AVERROR_INVALIDDATA == -1094995529

\* Frame sizes a stream may carry.
Dims == {[w |-> 2, h |-> 2], [w |-> 4, h |-> 2]}

\* avcodec_send_packet: a draining decoder answers end-of-stream; a packet
\* with null data and size 0 starts draining; `refuse` is any other refusal
\* (0 for none, else the code returned).
avcodec_send_packet(ctx, pkt, refuse) ==
  IF ctx.draining THEN [ret |-> AVERROR_EOF, ctx |-> ctx]
  ELSE IF refuse # 0 THEN [ret |-> refuse, ctx |-> ctx]
  ELSE IF pkt = 0
    THEN [ret |-> 0, ctx |-> [ctx EXCEPT !.draining = TRUE]]
    ELSE [ret |-> 0, ctx |-> [ctx EXCEPT !.buf = Append(@, pkt)]]

\* avcodec_receive_frame: a frame when the decoder has finished one (a
\* draining decoder finishes all it holds), else an error, end-of-stream or
\* EAGAIN.
avcodec_receive_frame(ctx, e) ==
  IF ctx.buf # <<>> /\ (ctx.draining \/ e.ready)
    THEN [ret |-> 0,
          frame |-> [id |-> Head(ctx.buf), width |-> e.dim.w,
                     height |-> e.dim.h],
          ctx |-> [ctx EXCEPT !.buf = Tail(@)]]
  ELSE [ret |-> IF e.recvFail THEN AVERROR_INVALIDDATA
                ELSE IF ctx.draining THEN AVERROR_EOF ELSE AVERROR_EAGAIN,
        frame |-> [id |-> 0, width |-> 0, height |-> 0],
        ctx |-> ctx]

\* avcodec_flush_buffers: drop what is buffered and leave draining mode.
avcodec_flush_buffers(ctx) == [ctx EXCEPT !.draining = FALSE, !.buf = <<>>]

\* What the codec does during one decoder call.
DecoderEnvs ==
  {e \in [refuse : {0, AVERROR_EAGAIN, AVERROR_INVALIDDATA}, ready : BOOLEAN,
          recvFail : BOOLEAN, dim : Dims] :
     /\ e.refuse # 0 => (~e.ready /\ ~e.recvFail)
     /\ ~e.ready => e.dim.w = 2}

\* A std::vector<uint8_t> of YUV420 data: its size and the frame it holds
\* (0: whatever the caller had in it).
EmptyYuv == [size |-> 0, frame |-> 0]

\* The object the constructor leaves: initialized_(false), dimensions 0.
NewDecoder(skip) ==
  [null |-> FALSE, skip_frames_after_flush |-> skip, initialized_ |-> FALSE,
   codec_context_ |-> NullCtx, frame_width_ |-> 0, frame_height_ |-> 0]

NullDecoder == [NewDecoder(0) EXCEPT !.null = TRUE]

Decoder_Initialize(self, openOk) ==
  IF openOk
    THEN [ret |-> TRUE,
          dec |-> [self EXCEPT !.codec_context_ = OpenCtx(0, 0, 0),
                               !.initialized_ = TRUE]]
    ELSE [ret |-> FALSE, dec |-> self]

\* H264Decoder::Create: nullptr unless Initialize succeeds.
H264Decoder_Create(skip, openOk) ==
  LET r == Decoder_Initialize(NewDecoder(skip), openOk)
  IN IF r.ret THEN r.dec ELSE NullDecoder

\* A decode that passes the codec's end-of-stream on to the caller instead
\* of reporting "more data needed".
Decoder_DecodeToYUV420_EofIsError(self, yuv, pkt, e) ==
  IF ~self.initialized_
    THEN [ret |-> -1, dec |-> self, yuv |-> yuv, send |-> 1, recv |-> 1]
  ELSE
    LET s == avcodec_send_packet(self.codec_context_, pkt, e.refuse)
    IN IF s.ret < 0
         THEN [ret |-> s.ret, dec |-> self, yuv |-> yuv, send |-> s.ret,
               recv |-> 1]
       ELSE
         LET r == avcodec_receive_frame(s.ctx, e)
             sent == [self EXCEPT !.codec_context_ = s.ctx]
         IN IF r.ret < 0
              THEN [ret |-> IF r.ret = AVERROR_EAGAIN THEN 0 ELSE r.ret,
                    dec |-> sent, yuv |-> yuv, send |-> s.ret, recv |-> r.ret]
              ELSE [ret |-> 1,
                    dec |-> [self EXCEPT
                               !.codec_context_ = r.ctx,
                               !.frame_width_ = r.frame.width,
                               !.frame_height_ = r.frame.height],
                    yuv |-> [size |-> (r.frame.width * r.frame.height * 3) \div 2,
                             frame |-> r.frame.id],
                    send |-> s.ret, recv |-> r.ret]

\* DecodeToYUV420(yuv_frame, h264_frame); pkt = 0 stands for a null or empty
\* h264_frame.  Returns the value, the decoder and the vector afterwards,
\* and what send and receive reported (1 where the call was not made).
Decoder_DecodeToYUV420(self, yuv, pkt, e) ==
  IF ~self.initialized_
    THEN [ret |-> -1, dec |-> self, yuv |-> yuv, send |-> 1, recv |-> 1]
  ELSE
    LET s == avcodec_send_packet(self.codec_context_, pkt, e.refuse)
    IN IF s.ret < 0
         THEN [ret |-> s.ret, dec |-> self, yuv |-> yuv, send |-> s.ret,
               recv |-> 1]
       ELSE
         LET r == avcodec_receive_frame(s.ctx, e)
             sent == [self EXCEPT !.codec_context_ = s.ctx]
         IN IF r.ret < 0
              THEN [ret |-> IF r.ret = AVERROR_EAGAIN THEN 0
                            ELSE IF r.ret = AVERROR_EOF THEN 0
                            ELSE r.ret,
                    dec |-> sent, yuv |-> yuv, send |-> s.ret, recv |-> r.ret]
              ELSE [ret |-> 1,
                    dec |-> [self EXCEPT
                               !.codec_context_ = r.ctx,
                               !.frame_width_ = r.frame.width,
                               !.frame_height_ = r.frame.height],
                    yuv |-> [size |-> (r.frame.width * r.frame.height * 3) \div 2,
                             frame |-> r.frame.id],
                    send |-> s.ret, recv |-> r.ret]

\* The loop of Reset: skip_frames_after_flush calls of
\* DecodeToYUV420(dummy, nullptr).
RECURSIVE Decoder_SkipFrames(_, _, _)
Decoder_SkipFrames(self, i, e) ==
  IF i >= self.skip_frames_after_flush THEN self
  ELSE Decoder_SkipFrames(
         Decoder_DecodeToYUV420(self, EmptyYuv, 0, e).dec, i + 1, e)

Decoder_Reset(self, e) ==
  IF self.codec_context_.alloc
    THEN Decoder_SkipFrames(
           [self EXCEPT !.codec_context_ = avcodec_flush_buffers(@)], 0, e)
    ELSE self

\* GetFrameDimensions(&width, &height)
GetFrameDimensions(self) == <<self.frame_width_, self.frame_height_>>

NoDecoderCall ==
  [name |-> "none", prev |-> "none", ret |-> 0, pkt |-> 0, send |-> 1,
   recv |-> 1, pre_yuv |-> EmptyYuv, pre_dims |-> <<0, 0>>]

\* auto decoder = H264Decoder::Create(config);
DecoderCreate(skip, openOk) ==
  /\ dlast.name = "none"
  /\ dec' = H264Decoder_Create(skip, openOk)
  /\ dlast' = [NoDecoderCall EXCEPT !.name = "Create"]
  /\ UNCHANGED <<yuv_frame, ncalls>>
  /\ UNCHANGED <<encVars, vp8Vars, picVars, nvVars>>

\* decoder->DecodeToYUV420(yuv_frame, &packet), or with no data to drain;
\* the caller's packets are numbered 1, 2, ...
DecodeToYUV420(hasData, e) ==
  /\ dlast.name # "none"
  /\ ~dec.null
  /\ ncalls < MaxCalls
  /\ LET pkt == IF hasData THEN ncalls + 1 ELSE 0
         r == Decoder_DecodeToYUV420(dec, yuv_frame, pkt, e)
     IN /\ dec' = r.dec
        /\ yuv_frame' = r.yuv
        /\ dlast' = [name |-> "DecodeToYUV420", prev |-> dlast.name,
                     ret |-> r.ret, pkt |-> pkt, send |-> r.send,
                     recv |-> r.recv, pre_yuv |-> yuv_frame,
                     pre_dims |-> GetFrameDimensions(dec)]
  /\ ncalls' = ncalls + 1
  /\ UNCHANGED <<encVars, vp8Vars, picVars, nvVars>>

\* decoder->Reset();
Reset(e) ==
  /\ dlast.name # "none"
  /\ ~dec.null
  /\ dec' = Decoder_Reset(dec, e)
  /\ dlast' = [NoDecoderCall EXCEPT !.name = "Reset", !.prev = dlast.name]
  /\ UNCHANGED <<yuv_frame, ncalls>>
  /\ UNCHANGED <<encVars, vp8Vars, picVars, nvVars>>

---------------------------------------------------------------------------
(***************************************************************************)
(* A VP8Encoder used through its own API (vp8_encoder.h).                  *)
(***************************************************************************)
\* The last call, and whether a StartFirstPass has succeeded so far.
NoVP8Call ==
  [name |-> "none", ret |-> FALSE, fault |-> FALSE, first_pass |-> FALSE]

VP8Cfg == [bitrate |-> 1000000, framerate |-> 30]

\* VP8Encoder* encoder = VP8Encoder::Create(config);
VP8Create(two_pass, openOk) ==
  /\ vlast.name = "none"
  /\ vp8' = VP8_Create(VP8Cfg, two_pass, openOk)
  /\ vlast' = [NoVP8Call EXCEPT !.name = "Create", !.fault = ~openOk]
  /\ UNCHANGED <<vp8_frame, vp8_pts>>
  /\ UNCHANGED <<encVars, decVars, picVars, nvVars>>

\* encoder->EncodeYUV420(yuv, &encoded_frame);
VP8EncodeYUV420(size, reuse, e) ==
  /\ vlast.name # "none"
  /\ ~vp8.null
  /\ vp8_pts < MaxFrames
  /\ reuse => vp8_frame # <<>>
  /\ LET r == VP8_EncodeYUV420(vp8, IF reuse THEN vp8_frame ELSE <<>>,
                              vp8_pts + 1, size, e)
     IN /\ vp8' = r.enc
        /\ vp8_frame' = r.out
        /\ vlast' = [vlast EXCEPT !.name = "EncodeYUV420", !.ret = (r.ret = 1),
                                  !.fault = EnvFault(e)]
  /\ vp8_pts' = vp8_pts + 1
  /\ UNCHANGED <<encVars, decVars, picVars, nvVars>>

\* encoder->StartFirstPass();
StartFirstPass(openOk) ==
  /\ vlast.name # "none"
  /\ ~vp8.null
  /\ LET r == VP8_StartFirstPass(vp8, openOk)
     IN /\ vp8' = r.enc
        /\ vlast' = [name |-> "StartFirstPass", ret |-> r.ret,
                     fault |-> ~openOk,
                     first_pass |-> (vlast.first_pass \/ r.ret)]
  /\ UNCHANGED <<vp8_frame, vp8_pts>>
  /\ UNCHANGED <<encVars, decVars, picVars, nvVars>>

\* encoder->StartSecondPass();
StartSecondPass(openOk) ==
  /\ vlast.name # "none"
  /\ ~vp8.null
  /\ LET r == VP8_StartSecondPass(vp8, openOk)
     IN /\ vp8' = r.enc
        /\ vlast' = [vlast EXCEPT !.name = "StartSecondPass", !.ret = r.ret,
                                  !.fault = ~openOk]
  /\ UNCHANGED <<vp8_frame, vp8_pts>>
  /\ UNCHANGED <<encVars, decVars, picVars, nvVars>>

\* encoder->IsFirstPassComplete();
IsFirstPassComplete ==
  /\ vlast.name # "none"
  /\ ~vp8.null
  /\ vlast' = [vlast EXCEPT !.name = "IsFirstPassComplete",
                            !.ret = VP8_IsFirstPassComplete(vp8),
                            !.fault = FALSE]
  /\ UNCHANGED <<vp8, vp8_frame, vp8_pts>>
  /\ UNCHANGED <<encVars, decVars, picVars, nvVars>>

---------------------------------------------------------------------------
(***************************************************************************)
(* The copy of a decoded AVFrame into the caller's YUV420 vector, as the   *)
(* H264, HEVC and VP8 decoders do it.  Byte c of row r of plane p of the   *)
(* codec's frame is <<p, r, c>>; the bytes with c at or beyond the plane's *)
(* width are the padding of the line stride.  0 is a byte of the vector    *)
(* that resize() left and no memcpy wrote.                                 *)
(***************************************************************************)
\* Bound: largest frame width and height.
MaxDim == 4

\* Bound: largest padding a line stride adds to a plane's width.
MaxPad == 2

PicDims == {d \in 2..MaxDim : d % 2 = 0}

\* width / 2 for the chroma planes
PlaneWidth(f, p) == IF p = 0 THEN f.width ELSE f.width \div 2

PlaneHeight(f, p) == IF p = 0 THEN f.height ELSE f.height \div 2

\* The YUV420P frames avcodec_receive_frame may hand out.
CodecFrames ==
  {f \in [width : PicDims, height : PicDims,
          linesize : [0..2 -> 1..(MaxDim + MaxPad)]] :
     \A p \in 0..2 :
       f.linesize[p] \in PlaneWidth(f, p)..(PlaneWidth(f, p) + MaxPad)}

NoFrame == [width |-> 0, height |-> 0, linesize |-> [p \in 0..2 |-> 0]]

\* frame->data[p]: linesize[p] bytes for each row of the plane.
FrameData(f, p) ==
  [o \in 1..(f.linesize[p] * PlaneHeight(f, p)) |->
     <<p, (o - 1) \div f.linesize[p], (o - 1) % f.linesize[p]>>]

\* yuv.resize(n) of the vector the decoder is handed
resize(n) == [i \in 1..n |-> 0]

\* std::memcpy(dst.data() + d, src + s, n)
memcpy(dst, d, src, s, n) ==
  [i \in 1..Len(dst) |->
     IF i > d /\ i <= d + n THEN src[s + (i - d)] ELSE dst[i]]

\* H264DecoderInstance: the row loop of one chroma plane.
RECURSIVE H264_CopyChroma(_, _, _, _, _)
H264_CopyChroma(yuv, f, p, base, i) ==
  LET uv_stride == f.width \div 2
      uv_height == f.height \div 2
  IN IF i >= uv_height THEN yuv
     ELSE H264_CopyChroma(
            memcpy(yuv, base + i * uv_stride, FrameData(f, p),
                   i * f.linesize[p], uv_stride),
            f, p, base, i + 1)

\* H264DecoderInstance::DecodeToYUV420 from the resize on: one memcpy of
\* width*height bytes for Y, a row loop for U and for V.
H264_CopyToYUV420(f) ==
  LET yuv_size == (f.width * f.height * 3) \div 2
      y_size == f.width * f.height
      u_size == (f.width \div 2) * (f.height \div 2)
      y == memcpy(resize(yuv_size), 0, FrameData(f, 0), 0, y_size)
      u == H264_CopyChroma(y, f, 1, y_size, 0)
  IN H264_CopyChroma(u, f, 2, y_size + u_size, 0)

\* HEVCDecoderImpl::DecodeToYUV420 from the size computation on: each plane
\* is copied whole, linesize * rows bytes.
HEVC_CopyToYUV420(f) ==
  LET y_size == f.linesize[0] * f.height
      u_size == (f.linesize[1] * f.height) \div 2
      v_size == (f.linesize[2] * f.height) \div 2
      total_size == y_size + u_size + v_size
      y == memcpy(resize(total_size), 0, FrameData(f, 0), 0, y_size)
      u == memcpy(y, y_size, FrameData(f, 1), 0, u_size)
  IN memcpy(u, y_size + u_size, FrameData(f, 2), 0, v_size)

\* VP8Decoder: the row loop of the Y plane.
RECURSIVE VP8_CopyLuma(_, _, _)
VP8_CopyLuma(yuv, f, i) ==
  IF i >= f.height THEN yuv
  ELSE VP8_CopyLuma(
         memcpy(yuv, i * f.width, FrameData(f, 0), i * f.linesize[0],
                f.width),
         f, i + 1)

\* VP8Decoder: the row loop that copies a row of U and a row of V.
RECURSIVE VP8_CopyChroma(_, _, _)
VP8_CopyChroma(yuv, f, i) ==
  LET y_size == f.width * f.height
      uv_size == y_size \div 4
  IN IF i >= f.height \div 2 THEN yuv
     ELSE VP8_CopyChroma(
            memcpy(memcpy(yuv, y_size + i * (f.width \div 2),
                          FrameData(f, 1), i * f.linesize[1],
                          f.width \div 2),
                   y_size + uv_size + i * (f.width \div 2),
                   FrameData(f, 2), i * f.linesize[2], f.width \div 2),
            f, i + 1)

\* VP8Decoder::DecodeToYUV420, the body of the receive loop.
VP8_CopyToYUV420(f) ==
  LET y_size == f.width * f.height
      uv_size == y_size \div 4
  IN VP8_CopyChroma(VP8_CopyLuma(resize(y_size + uv_size * 2), f, 0), f, 0)

\* The H264 decoder received frame f and returns 1.
H264DecodePicture(f) ==
  /\ pic_decoder' = "H264"
  /\ pic_frame' = f
  /\ pic_yuv' = H264_CopyToYUV420(f)
  /\ UNCHANGED <<encVars, decVars, vp8Vars, nvVars>>

\* The HEVC decoder received frame f and returns 1.
HEVCDecodePicture(f) ==
  /\ pic_decoder' = "HEVC"
  /\ pic_frame' = f
  /\ pic_yuv' = HEVC_CopyToYUV420(f)
  /\ UNCHANGED <<encVars, decVars, vp8Vars, nvVars>>

\* The VP8 decoder received frame f.
VP8DecodePicture(f) ==
  /\ pic_decoder' = "VP8"
  /\ pic_frame' = f
  /\ pic_yuv' = VP8_CopyToYUV420(f)
  /\ UNCHANGED <<encVars, decVars, vp8Vars, nvVars>>

---------------------------------------------------------------------------
(***************************************************************************)
(* The copy of the caller's picture into frame_ by the NVIDIA HEVC and AV1 *)
(* encoders (EncodeFrame up to avcodec_send_frame).  Byte i of the vector  *)
(* a caller passes is a value of its own; <<"old", p, o>> is what plane p  *)
(* of frame_ held at offset o before any picture was copied.               *)
(***************************************************************************)
NvDims == 1..MaxDim

NoNvConfig ==
  [encoder |-> "none", width |-> 0, height |-> 0, linesize |-> 0,
   pix_fmt |-> "none"]

\* av_frame_get_buffer for an NV12 frame: a Y plane and an interleaved UV
\* plane of linesize bytes per row; data[2] stays null.
NvFrameBuffer(cfg) ==
  [data0 |-> [o \in 1..(cfg.linesize * cfg.height) |-> <<"old", 0, o - 1>>],
   data1 |-> [o \in 1..(cfg.linesize * ((cfg.height + 1) \div 2)) |->
                <<"old", 1, o - 1>>],
   data2 |-> <<>>]

NoNvCall == [called |-> FALSE, ret |-> FALSE, size |-> 0, read |-> {},
             frame |-> NvFrameBuffer(NoNvConfig)]

\* The loop that interleaves the U and V plane into frame_->data[1].
RECURSIVE Nvidia_InterleaveUV(_, _, _, _)
Nvidia_InterleaveUV(uv_plane, frame_data, y_plane_size_, i) ==
  IF i >= y_plane_size_ \div 4 THEN uv_plane
  ELSE Nvidia_InterleaveUV(
         memcpy(memcpy(uv_plane, i * 2, frame_data, y_plane_size_ + i, 1),
                i * 2 + 1, frame_data,
                y_plane_size_ + (y_plane_size_ \div 4) + i, 1),
         frame_data, y_plane_size_, i + 1)

\* A copy that treats frame_ as planar YUV420P whatever its format: the
\* planes of a YUV420 picture are copied one by one, not interleaved.
Nvidia_CopyFrameData_Planar(cfg, buf, frame_data, is_nv12) ==
  LET y_plane_size_ == cfg.width * cfg.height
      y == memcpy(buf.data0, 0, frame_data, 0, y_plane_size_)
  IN IF is_nv12
       THEN [frame |-> [buf EXCEPT
                          !.data0 = y,
                          !.data1 = memcpy(@, 0, frame_data, y_plane_size_,
                                           y_plane_size_ \div 2)],
             read |-> 0..(y_plane_size_ + y_plane_size_ \div 2 - 1)]
     ELSE [frame |-> [buf EXCEPT
                        !.data0 = y,
                        !.data1 = memcpy(@, 0, frame_data, y_plane_size_,
                                         y_plane_size_ \div 4),
                        !.data2 = memcpy(@, 0, frame_data,
                                         y_plane_size_
                                           + (y_plane_size_ \div 4),
                                         y_plane_size_ \div 4)],
           read |-> 0..(y_plane_size_ + 2 * (y_plane_size_ \div 4) - 1)]

\* EncodeFrame, "Copy frame data": the frame afterwards and the offsets of
\* frame_data that were read.  pix_fmt is always NV12 (Initialize), the
\* planar branch is kept as the code has it.
Nvidia_CopyFrameData(cfg, buf, frame_data, is_nv12) ==
  LET y_plane_size_ == cfg.width * cfg.height
      y == memcpy(buf.data0, 0, frame_data, 0, y_plane_size_)
  IN IF is_nv12
       THEN [frame |-> [buf EXCEPT
                          !.data0 = y,
                          !.data1 = memcpy(@, 0, frame_data, y_plane_size_,
                                           y_plane_size_ \div 2)],
             read |-> 0..(y_plane_size_ + y_plane_size_ \div 2 - 1)]
     ELSE IF cfg.pix_fmt = "NV12"
       THEN [frame |-> [buf EXCEPT
                          !.data0 = y,
                          !.data1 = Nvidia_InterleaveUV(@, frame_data,
                                                        y_plane_size_, 0)],
             read |-> 0..(y_plane_size_ + 2 * (y_plane_size_ \div 4) - 1)]
     ELSE [frame |-> [buf EXCEPT
                        !.data0 = y,
                        !.data1 = memcpy(@, 0, frame_data, y_plane_size_,
                                         y_plane_size_ \div 4),
                        !.data2 = memcpy(@, 0, frame_data,
                                         y_plane_size_
                                           + (y_plane_size_ \div 4),
                                         y_plane_size_ \div 4)],
           read |-> 0..(y_plane_size_ + 2 * (y_plane_size_ \div 4) - 1)]

\* EncodeYUV420 / EncodeNV12 up to the frame handed to avcodec_send_frame:
\* refused when the vector is shorter than frame_size_.
Nvidia_SubmitPicture(cfg, buf, frame_data, is_nv12) ==
  LET frame_size_ == (cfg.width * cfg.height * 3) \div 2
  IN IF Len(frame_data) < frame_size_
       THEN [NoNvCall EXCEPT !.called = TRUE, !.size = Len(frame_data),
                             !.frame = buf]
       ELSE LET r == Nvidia_CopyFrameData(cfg, buf, frame_data, is_nv12)
            IN [called |-> TRUE, ret |-> TRUE, size |-> Len(frame_data),
                read |-> r.read, frame |-> r.frame]

\* The planar picture Y|U|V a caller passes: n bytes, byte i is <<"f", i>>.
PlanarPicture(n) == [i \in 1..n |-> <<"f", i - 1>>]

\* The same picture in NV12 layout: Y, then U[0], V[0], U[1], V[1], ...
ToNV12(f, y_size) ==
  LET c == y_size \div 4
  IN [i \in 1..Len(f) |->
        IF i <= y_size \/ i > y_size + 2 * c THEN f[i]
        ELSE LET k == (i - y_size - 1) \div 2
             IN IF (i - y_size - 1) % 2 = 0
                  THEN f[y_size + k + 1]
                  ELSE f[y_size + c + k + 1]]

\* Sizes of the vector a caller passes: frame_size_ + extra bytes.
NvExtra == {-1, 0, 1}

\* NvidiaHEVCEncoder::Create / NvidiaAV1Encoder::Create succeeded.
NvidiaCreatePicture(encoder, width, height, pad) ==
  /\ nv_config.encoder = "none"
  /\ LET cfg == [encoder |-> encoder, width |-> width, height |-> height,
                 linesize |-> width + pad, pix_fmt |-> "NV12"]
     IN /\ nv_config' = cfg
        /\ nv_frame' = NvFrameBuffer(cfg)
  /\ UNCHANGED <<nv_yuv420, nv_nv12>>
  /\ UNCHANGED <<encVars, decVars, vp8Vars, picVars>>

\* encoder->EncodeYUV420(f, &encoded_frame) with the planar picture f
NvidiaEncodeYUV420Picture(extra) ==
  /\ nv_config.encoder # "none"
  /\ LET frame_size_ == (nv_config.width * nv_config.height * 3) \div 2
         r == Nvidia_SubmitPicture(nv_config, nv_frame,
                                   PlanarPicture(frame_size_ + extra), FALSE)
     IN /\ nv_yuv420' = r
        /\ nv_frame' = r.frame
  /\ UNCHANGED <<nv_config, nv_nv12>>
  /\ UNCHANGED <<encVars, decVars, vp8Vars, picVars>>

\* encoder->EncodeNV12(g, &encoded_frame) with the same picture as NV12
NvidiaEncodeNV12Picture(extra) ==
  /\ nv_config.encoder # "none"
  /\ LET frame_size_ == (nv_config.width * nv_config.height * 3) \div 2
         g == ToNV12(PlanarPicture(frame_size_ + extra),
                     nv_config.width * nv_config.height)
         r == Nvidia_SubmitPicture(nv_config, nv_frame, g, TRUE)
     IN /\ nv_nv12' = r
        /\ nv_frame' = r.frame
  /\ UNCHANGED <<nv_config, nv_yuv420>>
  /\ UNCHANGED <<encVars, decVars, vp8Vars, picVars>>

InitEncoder ==
  /\ impl = "none"
  /\ config_ = [output_codec |-> "H264", gpu_acceleration |-> FALSE,
                bitrate |-> 5000000, framerate |-> 30]
  /\ codec_config_ = [bitrate |-> 0, framerate |-> 0]
  /\ encoder_ = NullEncoder
  /\ encoded_frame = <<>>
  /\ avail = [nv |-> FALSE, sw |-> FALSE]
  /\ last = NoCall
  /\ accepted = {}
  /\ delivered = {}
  /\ pts = 0

InitDecoder ==
  /\ dec = NullDecoder
  /\ yuv_frame = EmptyYuv
  /\ dlast = NoDecoderCall
  /\ ncalls = 0

InitVP8 ==
  /\ vp8 = NullEncoder
  /\ vlast = NoVP8Call
  /\ vp8_frame = <<>>
  /\ vp8_pts = 0

InitPicture ==
  /\ pic_decoder = "none"
  /\ pic_frame = NoFrame
  /\ pic_yuv = <<>>

InitNvidiaPicture ==
  /\ nv_config = NoNvConfig
  /\ nv_frame = NvFrameBuffer(NoNvConfig)
  /\ nv_yuv420 = NoNvCall
  /\ nv_nv12 = NoNvCall

Init ==
  InitEncoder /\ InitDecoder /\ InitVP8 /\ InitPicture /\ InitNvidiaPicture

\* Inputs that cannot change the outcome are not varied: a fresh vector
\* equals an empty reused one, a short frame is refused before the codec is
\* asked, and only an H264 encoder that is not initialised opens the codec
\* inside an encode call.
EncodeInputs ==
  {x \in [size : Sizes, reuse : BOOLEAN, e : Envs] :
     /\ x.reuse => encoded_frame # <<>>
     /\ x.size = "short" => (~x.e.sendFail /\ x.e.ready = 0 /\ ~x.e.recvFail)
     /\ ~x.e.openOk => (impl = "H264EncoderImpl" /\ ~encoder_.initialized_)}

NextEncoder ==
  \/ \E codec \in CodecTypes, gpu \in BOOLEAN, b \in Bitrates,
        f \in Framerates, av \in [nv : BOOLEAN, sw : BOOLEAN] :
       Create(codec, gpu, b, f, av)
  \/ \E x \in EncodeInputs : EncodeYUV420(x.size, x.reuse, x.e)
  \/ \E x \in EncodeInputs : EncodeNV12(x.size, x.reuse, x.e)
  \/ \E reuse \in BOOLEAN, e \in RunEnvs :
       (reuse => encoded_frame # <<>>) /\ Flush(reuse, e)
  \/ \E b \in UpdateValues, openOk \in BOOLEAN : UpdateBitrate(b, openOk)
  \/ \E f \in UpdateRates : UpdateFramerate(f)

Spec == Init /\ [][NextEncoder]_vars

NextDecoder ==
  \/ \E skip \in 0..MaxSkip, openOk \in BOOLEAN : DecoderCreate(skip, openOk)
  \/ \E p \in BOOLEAN, e \in DecoderEnvs : DecodeToYUV420(p, e)
  \/ \E e \in DecoderEnvs : Reset(e)

SpecDecoder == Init /\ [][NextDecoder]_vars

NextVP8 ==
  \/ \E two_pass \in BOOLEAN, openOk \in BOOLEAN : VP8Create(two_pass, openOk)
  \/ \E size \in Sizes, reuse \in BOOLEAN, e \in RunEnvs :
       VP8EncodeYUV420(size, reuse, e)
  \/ \E openOk \in BOOLEAN : StartFirstPass(openOk)
  \/ \E openOk \in BOOLEAN : StartSecondPass(openOk)
  \/ IsFirstPassComplete

SpecVP8 == Init /\ [][NextVP8]_vars

NextPicture ==
  \/ \E f \in CodecFrames : H264DecodePicture(f)
  \/ \E f \in CodecFrames : HEVCDecodePicture(f)
  \/ \E f \in CodecFrames : VP8DecodePicture(f)

SpecPicture == Init /\ [][NextPicture]_vars

NextNvidiaPicture ==
  \/ \E encoder \in {"HEVC", "AV1"}, width \in NvDims, height \in NvDims,
        pad \in 0..MaxPad :
       NvidiaCreatePicture(encoder, width, height, pad)
  \/ \E extra \in NvExtra : NvidiaEncodeYUV420Picture(extra)
  \/ \E extra \in NvExtra : NvidiaEncodeNV12Picture(extra)

SpecNvidiaPicture == Init /\ [][NextNvidiaPicture]_vars

---------------------------------------------------------------------------
(***************************************************************************)
(* Properties of the facade (checked under Spec).                          *)
(***************************************************************************)
GpuCodecs == {"H264", "HEVC", "AV1"}

\* C1: VideoEncoder::Create picks the wrapper from (output_codec,
\* gpu_acceleration) only: the software wrapper of the codec without
\* gpu_acceleration, the NVIDIA wrapper of the codec for H264, HEVC and AV1
\* with it, and the software wrapper of the same codec for VP8 and VP9 with
\* it; never a wrapper of another codec.
C1_CreateDispatch ==
  impl # "none" =>
    impl = (CASE config_.output_codec = "H264" ->
                   IF config_.gpu_acceleration THEN "NvidiaH264EncoderImpl"
                   ELSE "H264EncoderImpl"
              [] config_.output_codec = "HEVC" ->
                   IF config_.gpu_acceleration THEN "NvidiaHEVCEncoderImpl"
                   ELSE "HEVCEncoderImpl"
              [] config_.output_codec = "VP8" -> "VP8EncoderImpl"
              [] config_.output_codec = "VP9" -> "VP9EncoderImpl"
              [] config_.output_codec = "AV1" ->
                   IF config_.gpu_acceleration THEN "NvidiaAV1EncoderImpl"
                   ELSE "AV1EncoderImpl")

\* Create was called with gpu_acceleration for a codec without GPU encoder.
C1_GpuVP9Created ==
  /\ last.name = "Create"
  /\ config_.gpu_acceleration
  /\ config_.output_codec = "VP9"
  /\ impl = "VP9EncoderImpl"

\* C2: a non-null result of VideoEncoder::Create is an encoder that was
\* successfully initialised; Create returns a null pointer whenever the
\* underlying codec encoder could not be created.
C2_NonNullIsInitialised ==
  Created => (~encoder_.null /\ encoder_.codec_context_.alloc)

\* C3: when gpu_acceleration is requested for H264, HEVC or AV1 and the
\* NVIDIA encoder cannot be created, Create falls back to the CPU encoder of
\* the same codec, and the returned encoder can encode.
C3_GpuFallsBackToCpu ==
  (/\ Created
   /\ config_.gpu_acceleration
   /\ config_.output_codec \in GpuCodecs
   /\ ~avail.nv
   /\ avail.sw)
    => (impl = SoftwareImpl(config_.output_codec) /\ ~encoder_.null)

\* C4: whenever Flush returns true, the encoded data of every accepted
\* frame has been handed to the caller and no accepted frame remains
\* buffered inside the codec, for every wrapper Create returns.
C4_FlushDeliversAll ==
  (Created /\ last.name = "Flush" /\ last.ret /\ ~last.fault)
    => (/\ accepted \subseteq delivered
        /\ Range(encoder_.codec_context_.buf) \cap accepted = {})

\* C5: after UpdateBitrate(b) returns true GetConfig().bitrate = b, and
\* after UpdateFramerate(f) returns true GetConfig().framerate = f.
C5_GetConfigIsCurrent ==
  /\ (last.name = "UpdateBitrate" /\ last.ret) => GetConfig.bitrate = last.arg
  /\ (last.name = "UpdateFramerate" /\ last.ret)
       => GetConfig.framerate = last.arg

\* C6: when EncodeYUV420 of the HEVC or VP9 encoder reports success,
\* *encoded_frame holds what this call produced: the packet received in this
\* call, or nothing; never the bytes the vector held before the call.
C6_OutputWrittenByCall ==
  (/\ impl \in {"HEVCEncoderImpl", "VP9EncoderImpl"}
   /\ last.name = "EncodeYUV420"
   /\ last.ret)
    => encoded_frame = last.pkts

\* C7: calling Flush of the HEVC or AV1 encoder until it reports no more
\* data (it fails, or returns no packet) delivers every packet the codec
\* held: none is left inside the codec.
C7_RepeatedFlushDrains ==
  (/\ impl \in {"HEVCEncoderImpl", "AV1EncoderImpl"}
   /\ last.name = "Flush"
   /\ ~last.fault
   /\ (~last.ret \/ last.pkts = <<>>))
    => encoder_.codec_context_.buf = <<>>

(***************************************************************************)
(* Properties of the H264 decoder (checked under SpecDecoder).             *)
(***************************************************************************)
\* C8: DecodeToYUV420 returns 1 exactly when a decoded frame was copied into
\* yuv_frame (resized to width*height*3/2) and the last-frame dimensions
\* were updated, 0 exactly when receive reported EAGAIN or end-of-stream,
\* and a negative value otherwise, -1 for a decoder that is not initialised;
\* when the result is not 1, yuv_frame and the dimensions are unchanged.
C8_DecodeReturnCodes ==
  /\ dlast.name = "DecodeToYUV420" =>
       /\ (dlast.ret = 1) <=> (dlast.recv = 0)
       /\ dlast.ret = 1 =>
            /\ yuv_frame.frame \in 1..MaxCalls
            /\ dec.frame_width_ > 0 /\ dec.frame_height_ > 0
            /\ yuv_frame.size
                 = (dec.frame_width_ * dec.frame_height_ * 3) \div 2
       /\ (dlast.ret = 0) <=> (dlast.recv \in {AVERROR_EAGAIN, AVERROR_EOF})
       /\ dlast.ret \notin {0, 1} => dlast.ret < 0
       /\ dlast.ret # 1 =>
            /\ yuv_frame = dlast.pre_yuv
            /\ GetFrameDimensions(dec) = dlast.pre_dims
  /\ \A skip \in 0..MaxSkip, pkt \in 0..1, e \in DecoderEnvs :
       LET r == Decoder_DecodeToYUV420(NewDecoder(skip), yuv_frame, pkt, e)
       IN /\ r.ret = -1
          /\ r.yuv = yuv_frame
          /\ GetFrameDimensions(r.dec) = <<0, 0>>

\* A decode has returned a frame of another size than the frame before it.
C8_FrameOfNewSizeDecoded ==
  /\ dlast.name = "DecodeToYUV420"
  /\ dlast.ret = 1
  /\ dlast.pre_dims = <<2, 2>>
  /\ GetFrameDimensions(dec) = <<4, 2>>
  /\ yuv_frame.size = 12

\* C9: after Reset() returns, for any skip_frames_after_flush >= 0, the next
\* DecodeToYUV420 call with a non-empty packet is accepted by the codec and
\* does not fail with end-of-stream.
C9_DecodeAfterResetNotEof ==
  (dlast.name = "DecodeToYUV420" /\ dlast.prev = "Reset" /\ dlast.pkt # 0)
    => (dlast.send # AVERROR_EOF /\ dlast.ret # AVERROR_EOF)

(***************************************************************************)
(* Properties of the VP8 encoder (checked under SpecVP8).                  *)
(***************************************************************************)
\* C10: for a VP8Encoder created with two_pass_encoding, after a successful
\* StartFirstPass() and encoded frames, StartSecondPass() returns true, the
\* codec is re-opened in pass 2 and IsFirstPassComplete() returns true.
C10_SecondPassStarts ==
  (/\ vlast.name = "StartSecondPass"
   /\ vp8.two_pass_encoding
   /\ vlast.first_pass
   /\ vp8_pts > 0
   /\ ~vlast.fault)
    => (/\ vlast.ret
        /\ vp8.codec_context_.pass = 2
        /\ VP8_IsFirstPassComplete(vp8))

(***************************************************************************)
(* Properties of the picture copies (checked under SpecPicture).           *)
(***************************************************************************)
\* The planar YUV420 image of frame f without stride padding: the first
\* plane-width bytes of every row of Y, then of U, then of V.
TightlyPacked(f) ==
  LET y_size == f.width * f.height
      c_width == f.width \div 2
      c_size == c_width * (f.height \div 2)
  IN [i \in 1..(y_size + 2 * c_size) |->
        IF i <= y_size
          THEN <<0, (i - 1) \div f.width, (i - 1) % f.width>>
        ELSE IF i <= y_size + c_size
          THEN <<1, (i - y_size - 1) \div c_width,
                 (i - y_size - 1) % c_width>>
        ELSE <<2, (i - y_size - c_size - 1) \div c_width,
               (i - y_size - c_size - 1) % c_width>>]

\* C11: on success the output of each video decoder's DecodeToYUV420 is the
\* tightly packed planar YUV420 image of the decoded frame, exactly
\* w*h + 2*(w/2)*(h/2) bytes, for every line stride >= the plane width:
\* stride padding never appears in or shifts the output.
C11_OutputTightlyPacked ==
  pic_decoder \in {"H264", "HEVC", "VP8"} => pic_yuv = TightlyPacked(pic_frame)

(***************************************************************************)
(* Properties of the NVIDIA picture copies (checked under                  *)
(* SpecNvidiaPicture).                                                     *)
(***************************************************************************)
\* C12: on the NVIDIA HEVC and AV1 encoders, for width*height divisible by
\* 4, EncodeYUV420(f) of a planar picture f = Y|U|V and EncodeNV12(g) of
\* g = Y, U[0], V[0], U[1], V[1], ... submit the same frame: the Y plane and
\* the interleaved UV plane written are equal, and both calls read exactly
\* width*height*3/2 input bytes.
C12_SamePictureSubmitted ==
  LET y_size == nv_config.width * nv_config.height
      c == y_size \div 4
      f == PlanarPicture((y_size * 3) \div 2)
  IN (nv_yuv420.ret /\ nv_nv12.ret /\ y_size % 4 = 0) =>
       /\ nv_yuv420.frame.data0 = nv_nv12.frame.data0
       /\ nv_yuv420.frame.data1 = nv_nv12.frame.data1
       /\ \A i \in 1..y_size : nv_yuv420.frame.data0[i] = f[i]
       /\ \A k \in 0..(c - 1) :
            /\ nv_yuv420.frame.data1[2 * k + 1] = f[y_size + k + 1]
            /\ nv_yuv420.frame.data1[2 * k + 2] = f[y_size + c + k + 1]
       /\ nv_yuv420.read = 0..((y_size * 3) \div 2 - 1)
       /\ nv_nv12.read = 0..((y_size * 3) \div 2 - 1)

\* Both calls have submitted a 4x2 picture to an encoder whose frame has
\* padded rows.
C12_BothLayoutsSubmitted ==
  /\ nv_config.width = 4 /\ nv_config.height = 2
  /\ nv_config.linesize > nv_config.width
  /\ nv_yuv420.ret /\ nv_nv12.ret
  /\ nv_yuv420.frame.data1[2] = <<"f", 10>>

====
